---- MODULE Spec2Model ----
(***************************************************************************)
(* Model of the custom API of vaultwarden (src/api/custom.rs) and of the   *)
(* Report entity (src/db/models/report.rs): the x-vaultwarden-api request  *)
(* guard, POST /invite, GET /user/<id>/details and POST /exposed, run as   *)
(* concurrent request tasks over one shared store.                         *)
(***************************************************************************)
EXTENDS Integers, Sequences, FiniteSets, TLC

\* ---------------------------------------------------------------- bounds
\* Requests accepted in one behaviour (all kinds together).
MaxRequests == 2
\* Largest value the wall clock reaches.
MaxTime == 2

\* Concurrent request tasks.
Procs == {1, 2}
\* Organization ids.
Orgs == {1, 2}
\* Users in the store at start-up; user i has the i-th of Emails.
InitUsers == {1, 2}
\* Values a client submits as an exposed count (i32 in ExposedData).
Counts == {-1, 2}
\* User ids a client submits: 3 is no start-up user.
UserIds == {1, 2, 3}
\* Emails a client submits to /invite: "a" is a start-up user's, "c" is new.
Emails == <<"a", "b", "c">>
InviteEmails == {"a", "c"}
\* Values of the x-vaultwarden-api header: <<>> is an absent header.
Headers == {<<>>, <<"">>, <<"k">>, <<"K">>}
\* Values of CONFIG.x_vaultwarden_api(): <<>> is an unset option.
ApiKeys == {<<>>, <<"">>, <<"k">>, <<"K">>}
\* The header values and the configured key of the runs of whole handlers.
RequestHeaders == {<<"k">>, <<"K">>}
RequestKeys == {<<"k">>}

\* Option::None of an id or of a timestamp (ids and timestamps are >= 1).
None == 0

VARIABLES
    users,        \* users table: set of [uuid, email]
    memberships,  \* users_organizations table, in row order: Seq of [user_uuid, org_uuid]
    reports,      \* reports table: set of Report rows (primary key uuid)
    invitations,  \* invitations table: set of emails
    mails,        \* admin-invite mails sent: set of [email, user_uuid]
    config,       \* CONFIG: [x_vaultwarden_api, mail_enabled]
    clock,        \* Utc::now()
    nextUuid,     \* get_uuid(): [user |-> next user uuid, report |-> next report uuid]
    started,      \* requests accepted so far
    pc,           \* per task: position in its handler
    req,          \* per task: the request
    loc,          \* per task: the handler's locals
    res,          \* per task: the response
    log           \* per task: the store and mail operations done, in order

store == <<users, memberships, reports, invitations, mails>>
vars == <<users, memberships, reports, invitations, mails, config, clock,
          nextUuid, started, pc, req, loc, res, log>>

\* ----------------------------------------------------------------- Report
NoReport ==
    [uuid |-> None, user_uuid |-> None, org_uuid |-> None,
     exposed_count |-> 0, created_at |-> None, last_updated_at |-> None]

\* Report::new_personal
new_personal(uuid, user_uuid, exposed_count, now) ==
    [uuid |-> uuid, user_uuid |-> user_uuid, org_uuid |-> None,
     exposed_count |-> exposed_count, created_at |-> now, last_updated_at |-> now]

\* new_org as a copy of new_personal that keeps its owner field.
new_org_as_personal(uuid, org_uuid, exposed_count, now) ==
    [uuid |-> uuid, user_uuid |-> org_uuid, org_uuid |-> None,
     exposed_count |-> exposed_count, created_at |-> now, last_updated_at |-> now]

\* Report::new_org
new_org(uuid, org_uuid, exposed_count, now) ==
    [uuid |-> uuid, user_uuid |-> None, org_uuid |-> org_uuid,
     exposed_count |-> exposed_count, created_at |-> now, last_updated_at |-> now]

\* update_exposed_count adding the new count to the stored one.
update_exposed_count_adding(self, new_count, now) ==
    [self EXCEPT !.exposed_count = IF self.exposed_count + new_count < 0 THEN 0
                                   ELSE self.exposed_count + new_count,
                 !.last_updated_at = now]

\* Report::update_exposed_count
update_exposed_count(self, new_count, now) ==
    [self EXCEPT !.exposed_count = IF new_count < 0 THEN 0 ELSE new_count,
                 !.last_updated_at = now]

\* Report::find_by_user_personal: the rows the query's filters select
\* (.first() returns one of them, None when there is none).
find_by_user_personal(user_uuid) ==
    {r \in reports : r.user_uuid = user_uuid /\ r.org_uuid = None}

\* Report::find_by_org: the rows the query's filters select.
find_by_org(org_uuid) ==
    {r \in reports : r.user_uuid = None /\ r.org_uuid = org_uuid}

\* .first().ok(): one of the selected rows, NoReport when none is selected.
first(rows) == IF rows = {} THEN {NoReport} ELSE rows

\* Report::save as a plain insert, with no on_conflict clause.
save_insert_only(table, self) == table \cup {self}

\* Report::save: insert, on conflict of the primary key uuid replace the row.
save(table, self) == {r \in table : r.uuid # self.uuid} \cup {self}

\* ------------------------------------------------------------ collaborators
\* User::find_by_uuid
User_find_by_uuid(uuid) == {u \in users : u.uuid = uuid}

\* User::find_by_mail
User_find_by_mail(email) == {u \in users : u.email = email}

\* Membership::find_by_user: the user's rows, in row order.
Membership_find_by_user(user_uuid) ==
    SelectSeq(memberships, LAMBDA m : m.user_uuid = user_uuid)

\* Membership::find_by_org
Membership_find_by_org(org_uuid) ==
    SelectSeq(memberships, LAMBDA m : m.org_uuid = org_uuid)

\* User::save: insert, on conflict of the primary key uuid replace the row.
User_save(table, self) == {u \in table : u.uuid # self.uuid} \cup {self}

\* ------------------------------------------------------------------ tasks
NoUser == [uuid |-> None, email |-> ""]
NoDetails == [status |-> "", org_id |-> None, members_count |-> 0,
              exposed_count |-> 0, last_updated_at |-> <<>>]
NoReq == [kind |-> "idle", header |-> <<>>, email |-> "", user_id |-> None,
          me |-> 0, org |-> <<>>]
NoLoc == [user_memberships |-> <<>>, found |-> NoReport, report |-> NoReport,
          todo |-> {}, org_uuid |-> None, user |-> NoUser]
NoRes == [code |-> 0, msg |-> "", user_id |-> None, details |-> NoDetails]

\* Ok(()) of an EmptyResult, Ok(Json(..)) of a JsonResult, and the errors.
Ok == [NoRes EXCEPT !.code = 200]
OkUserId(uuid) == [Ok EXCEPT !.user_id = uuid]
OkDetails(d) == [Ok EXCEPT !.details = d]
Err(code, msg) == [NoRes EXCEPT !.code = code, !.msg = msg]

\* The maps a client submits as ExposedData.org: no entry, or an entry for
\* each organization, the two counts different.
OrgMaps == {<<>>} \cup {m \in [Orgs -> Counts] : m[1] # m[2]}

\* The users_organizations table: user 1 belongs to both organizations (to 2
\* by its first row), user 2 to organization 1 only.
MembershipTable ==
    << [user_uuid |-> 1, org_uuid |-> 2], [user_uuid |-> 2, org_uuid |-> 1],
       [user_uuid |-> 1, org_uuid |-> 1] >>

\* The reports table at start-up: empty, or as an earlier report of user 2
\* ({me: 2, org: {1: 2}} at time 1) has left it.
InitReports ==
    { {},
      {new_personal(1, 2, 2, 1), new_org(2, 1, 2, 1)} }

InitWith(keys) ==
    /\ users = {[uuid |-> i, email |-> Emails[i]] : i \in InitUsers}
    /\ memberships = MembershipTable
    /\ reports \in InitReports
    /\ invitations = {}
    /\ mails = {}
    /\ config \in [x_vaultwarden_api : keys, mail_enabled : BOOLEAN]
    /\ clock = 1
    /\ nextUuid = [user |-> Cardinality(InitUsers) + 1,
                   report |-> Cardinality(reports) + 1]
    /\ started = 0
    /\ pc = [p \in Procs |-> "idle"]
    /\ req = [p \in Procs |-> NoReq]
    /\ loc = [p \in Procs |-> NoLoc]
    /\ res = [p \in Procs |-> NoRes]
    /\ log = [p \in Procs |-> <<>>]

Init == InitWith(RequestKeys)

\* The response is sent: the task ends with r as its result.
Return(p, r) ==
    /\ pc' = [pc EXCEPT ![p] = "done"]
    /\ res' = [res EXCEPT ![p] = r]

\* The handler goes on: the task has no response yet.
Goto(p, label) ==
    /\ pc' = [pc EXCEPT ![p] = label]
    /\ res' = [res EXCEPT ![p] = NoRes]

Logged(p, ops) == log' = [log EXCEPT ![p] = @ \o ops]

\* A handler starts: its locals are l, and ops are its first operations.
Begun(p, l, ops) ==
    /\ loc' = [loc EXCEPT ![p] = l]
    /\ log' = [log EXCEPT ![p] = ops]

\* A request is accepted by the lowest free task (tasks are interchangeable);
\* a task that has responded keeps its response until it accepts a request.
Free(p) == pc[p] \in {"idle", "done"}

Accept(p) ==
    /\ Free(p)
    /\ \A q \in Procs : q < p => ~Free(q)
    /\ started < MaxRequests
    /\ started' = started + 1

\* ------------------------------------------------------------- the guard
Success == [code |-> 200, msg |-> ""]
Failure(code, msg) == [code |-> code, msg |-> msg]

\* from_request looking at the configured key before the header.
from_request_key_first(api_key, expected) ==
    IF expected = <<>>
    THEN Failure(500, "x-vaultwarden-api not configured")
    ELSE IF api_key # <<>> /\ api_key[1] # ""
         THEN IF api_key[1] = expected[1]
              THEN Success
              ELSE Failure(401, "Invalid x-vaultwarden-api")
         ELSE Failure(401, "Missing x-vaultwarden-api header")

\* VWApi::from_request: api_key is request.headers().get_one(..), expected
\* is CONFIG.x_vaultwarden_api().
from_request(api_key, expected) ==
    IF api_key # <<>> /\ api_key[1] # ""
    THEN IF expected # <<>>
         THEN IF api_key[1] = expected[1]
              THEN Success
              ELSE Failure(401, "Invalid x-vaultwarden-api")
         ELSE Failure(500, "x-vaultwarden-api not configured")
    ELSE Failure(401, "Missing x-vaultwarden-api header")

\* A handler declared without its VWApi parameter.
Unguarded(p, header, handler) == handler

\* Rocket runs the handler only when its guards succeed; a guard's error is
\* the response.
Guarded(p, header, handler) ==
    LET outcome == from_request(header, config.x_vaultwarden_api) IN
    IF outcome = Success
    THEN handler
    ELSE /\ Return(p, Err(outcome.code, outcome.msg))
         /\ Begun(p, NoLoc, <<>>)
         /\ UNCHANGED <<store, nextUuid>>

\* ---------------------------------------------------------- POST /invite
\* invite_user without the early return for an existing user.
invite_user_always_new(p, email) ==
    /\ Begun(p, [NoLoc EXCEPT !.user = [uuid |-> nextUuid.user, email |-> email]],
             <<"find_user">>)
    /\ nextUuid' = [nextUuid EXCEPT !.user = @ + 1]
    /\ Goto(p, "i_generate_invite")
    /\ UNCHANGED store

\* invite_user saving the new user without _generate_invite before it.
invite_user_save_first(p, email) ==
    IF User_find_by_mail(email) # {}
    THEN /\ \E existing_user \in User_find_by_mail(email) :
               Return(p, OkUserId(existing_user.uuid))
         /\ Begun(p, NoLoc, <<"find_user">>)
         /\ UNCHANGED <<store, nextUuid>>
    ELSE /\ Begun(p, [NoLoc EXCEPT !.user = [uuid |-> nextUuid.user,
                                             email |-> email]],
                  <<"find_user">>)
         /\ nextUuid' = [nextUuid EXCEPT !.user = @ + 1]
         /\ Goto(p, "i_save")
         /\ UNCHANGED store

\* The request arrives; the guard; User::find_by_mail; the user found is the
\* response, or User::new builds the user to invite.
invite_user(p, email) ==
    IF User_find_by_mail(email) # {}
    THEN /\ \E existing_user \in User_find_by_mail(email) :
               Return(p, OkUserId(existing_user.uuid))
         /\ Begun(p, NoLoc, <<"find_user">>)
         /\ UNCHANGED <<store, nextUuid>>
    ELSE /\ Begun(p, [NoLoc EXCEPT !.user = [uuid |-> nextUuid.user,
                                             email |-> email]],
                  <<"find_user">>)
         /\ nextUuid' = [nextUuid EXCEPT !.user = @ + 1]
         /\ Goto(p, "i_generate_invite")
         /\ UNCHANGED store

InviteArrives(p, headers) ==
    /\ Accept(p)
    /\ \E header \in headers, email \in InviteEmails :
          /\ req' = [req EXCEPT ![p] = [NoReq EXCEPT !.kind = "invite",
                        !.header = header, !.email = email]]
          /\ Guarded(p, header, invite_user(p, email))
    /\ UNCHANGED <<config, clock>>

InviteRequest(p) == InviteArrives(p, RequestHeaders)

\* _generate_invite sending the mail and saving the Invitation row as well.
generate_invite_both(p) ==
    /\ mails' = mails \cup {[email |-> loc[p].user.email,
                             user_uuid |-> loc[p].user.uuid]}
    /\ invitations' = invitations \cup {loc[p].user.email}
    /\ Logged(p, <<"send_admin_invite", "save_invitation">>)

\* _generate_invite returning Ok: mail::send_admin_invite has sent the mail
\* or (mail disabled) Invitation::save has written the row keyed by email.
generate_invite(p) ==
    IF config.mail_enabled
    THEN /\ mails' = mails \cup {[email |-> loc[p].user.email,
                                  user_uuid |-> loc[p].user.uuid]}
         /\ Logged(p, <<"send_admin_invite">>)
         /\ UNCHANGED invitations
    ELSE /\ invitations' = invitations \cup {loc[p].user.email}
         /\ Logged(p, <<"save_invitation">>)
         /\ UNCHANGED mails

\* InviteGenerate going on to the save when _generate_invite returns Err.
InviteGenerate_error_ignored(p) ==
    /\ pc[p] = "i_generate_invite"
    /\ \/ /\ generate_invite(p)
          /\ Goto(p, "i_save")
       \/ /\ Goto(p, "i_save")
          /\ UNCHANGED <<mails, invitations, log>>
    /\ UNCHANGED <<users, memberships, reports, config, clock, nextUuid,
                   started, req, loc>>

\* _generate_invite(&user, &mut conn).await.map_err(..)? : the mail is sent
\* or (mail disabled) the Invitation row saved, or the error is the response.
InviteGenerate(p) ==
    /\ pc[p] = "i_generate_invite"
    /\ \/ /\ generate_invite(p)
          /\ Goto(p, "i_save")
       \/ /\ Return(p, Err(500, "invite"))
          /\ UNCHANGED <<mails, invitations, log>>
    /\ UNCHANGED <<users, memberships, reports, config, clock, nextUuid,
                   started, req, loc>>

\* user.save(&mut conn).await.map_err(..)? and the response.
InviteSave(p) ==
    /\ pc[p] = "i_save"
    /\ \/ /\ users' = User_save(users, loc[p].user)
          /\ Logged(p, <<"save_user">>)
          /\ Return(p, OkUserId(loc[p].user.uuid))
       \/ /\ Return(p, Err(500, "save"))
          /\ UNCHANGED <<users, log>>
    /\ UNCHANGED <<memberships, reports, invitations, mails, config, clock,
                   nextUuid, started, req, loc>>

\* ------------------------------------------------- GET /user/<id>/details
\* .and_utc().to_rfc3339() of a timestamp: the text of its date and time.
to_rfc3339(t) == <<"rfc3339", t>>

\* UserDetailsResponse with the status taken from the report found.
UserDetailsResponse_status_of_report(user_memberships, org_memberships, report) ==
    [status |-> IF report = NoReport THEN "Pending" ELSE "Active",
     org_id |-> IF user_memberships = <<>> THEN None
                ELSE user_memberships[1].org_uuid,
     members_count |-> IF user_memberships = <<>> THEN 0 ELSE Len(org_memberships),
     exposed_count |-> IF user_memberships = <<>> \/ report = NoReport THEN 0
                       ELSE report.exposed_count,
     last_updated_at |-> IF user_memberships = <<>> \/ report = NoReport THEN <<>>
                         ELSE <<to_rfc3339(report.last_updated_at)>>]

\* The response of get_user_details, from the user's memberships, the
\* memberships of the first one's organization and that organization's report.
UserDetailsResponse(user_memberships, org_memberships, report) ==
    [status |-> IF user_memberships = <<>> THEN "Pending" ELSE "Active",
     org_id |-> IF user_memberships = <<>> THEN None
                ELSE user_memberships[1].org_uuid,
     members_count |-> IF user_memberships = <<>> THEN 0 ELSE Len(org_memberships),
     exposed_count |-> IF user_memberships = <<>> \/ report = NoReport THEN 0
                       ELSE report.exposed_count,
     last_updated_at |-> IF user_memberships = <<>> \/ report = NoReport THEN <<>>
                         ELSE <<to_rfc3339(report.last_updated_at)>>]

\* The request arrives; the guard; User::find_by_uuid; Membership::find_by_user
\* and Membership::find_by_org (memberships never change).
get_user_details(p, user_id) ==
    /\ UNCHANGED <<store, nextUuid>>
    /\ IF User_find_by_uuid(user_id) = {}
       THEN /\ Return(p, Err(404, "User not found"))
            /\ Begun(p, NoLoc, <<"find_user">>)
       ELSE LET ms == Membership_find_by_user(user_id) IN
            IF ms = <<>>
            THEN /\ Return(p, OkDetails(UserDetailsResponse(ms, <<>>, NoReport)))
                 /\ Begun(p, NoLoc, <<"find_user", "find_memberships">>)
            ELSE /\ Begun(p, [NoLoc EXCEPT !.user_memberships = ms],
                          <<"find_user", "find_memberships">>)
                 /\ Goto(p, "d_report")

DetailsArrives(p, headers) ==
    /\ Accept(p)
    /\ \E header \in headers, user_id \in UserIds :
          /\ req' = [req EXCEPT ![p] = [NoReq EXCEPT !.kind = "details",
                        !.header = header, !.user_id = user_id]]
          /\ Guarded(p, header, get_user_details(p, user_id))
    /\ UNCHANGED <<config, clock>>

DetailsRequest(p) == DetailsArrives(p, RequestHeaders)

\* DetailsReport looking up the user's personal report.
DetailsReport_personal(p) ==
    /\ pc[p] = "d_report"
    /\ LET ms == loc[p].user_memberships IN
       \E report \in first(find_by_user_personal(req[p].user_id)) :
          Return(p, OkDetails(UserDetailsResponse(ms,
                      Membership_find_by_org(ms[1].org_uuid), report)))
    /\ Logged(p, <<"find_report">>)
    /\ UNCHANGED <<store, config, clock, nextUuid, started, req, loc>>

\* Report::find_by_org(&membership.org_uuid) and the response.
DetailsReport(p) ==
    /\ pc[p] = "d_report"
    /\ LET ms == loc[p].user_memberships IN
       \E report \in first(find_by_org(ms[1].org_uuid)) :
          Return(p, OkDetails(UserDetailsResponse(ms,
                      Membership_find_by_org(ms[1].org_uuid), report)))
    /\ Logged(p, <<"find_report">>)
    /\ UNCHANGED <<store, config, clock, nextUuid, started, req, loc>>

\* --------------------------------------------------------- POST /exposed
\* is_member asking for any membership at all.
is_member_of_any(user_memberships, org_uuid) == user_memberships # <<>>

\* any(|membership| membership.org_uuid == org_uuid)
is_member(user_memberships, org_uuid) ==
    \E i \in DOMAIN user_memberships : user_memberships[i].org_uuid = org_uuid

\* The match on Report::find_by_user_personal / Report::find_by_org, up to the
\* save: update_exposed_count on the row found, a new report when none is.
upsert_personal(found, uuid, user_uuid, exposed_count, now) ==
    IF found # NoReport
    THEN update_exposed_count(found, exposed_count, now)
    ELSE new_personal(uuid, user_uuid, exposed_count, now)

upsert_org(found, uuid, org_uuid, exposed_count, now) ==
    IF found # NoReport
    THEN update_exposed_count(found, exposed_count, now)
    ELSE new_org(uuid, org_uuid, exposed_count, now)

\* get_uuid() is called by the constructors only.
uuid_taken(found) ==
    [nextUuid EXCEPT !.report = IF found = NoReport THEN @ + 1 ELSE @]

\* exposed going on to the reports when the user is not found.
exposed_unknown_user(p, user_id, me, org) ==
    \E found \in first(find_by_user_personal(user_id)) :
         /\ Begun(p, [NoLoc EXCEPT
               !.user_memberships = Membership_find_by_user(user_id),
               !.todo = DOMAIN org,
               !.found = found,
               !.report = upsert_personal(found, nextUuid.report,
                                          user_id, me, clock)],
               <<"find_user", "find_memberships", "find_report">>)
         /\ nextUuid' = uuid_taken(found)
         /\ Goto(p, "x_save_personal")

\* The request arrives and ExposedData is deserialized; User::find_by_uuid,
\* Membership::find_by_user, Report::find_by_user_personal, and the report to
\* save is built. These reads of one task are taken as one step: users are
\* never deleted and memberships never change, so only the report lookup can
\* be affected by another task, and the save that follows is a step of its own.
\* Utc::now() and get_uuid() are read here, when the report is built: the
\* clock may advance and other tasks may save before this report is saved.
exposed(p, user_id, me, org) ==
    IF User_find_by_uuid(user_id) = {}
    THEN /\ Return(p, Ok)
         /\ Begun(p, NoLoc, <<"find_user">>)
         /\ UNCHANGED nextUuid
    ELSE \E found \in first(find_by_user_personal(user_id)) :
         /\ Begun(p, [NoLoc EXCEPT
               !.user_memberships = Membership_find_by_user(user_id),
               !.todo = DOMAIN org,
               !.found = found,
               !.report = upsert_personal(found, nextUuid.report,
                                          user_id, me, clock)],
               <<"find_user", "find_memberships", "find_report">>)
         /\ nextUuid' = uuid_taken(found)
         /\ Goto(p, "x_save_personal")

ExposedRequest(p) ==
    /\ Accept(p)
    /\ \E user_id \in UserIds, me \in Counts, org \in OrgMaps :
          /\ req' = [req EXCEPT ![p] = [NoReq EXCEPT !.kind = "exposed",
                        !.user_id = user_id, !.me = me, !.org = org]]
          /\ exposed(p, user_id, me, org)
    /\ UNCHANGED <<store, config, clock>>

\* ExposedSave going on with the loop when report.save returns Err.
ExposedSave_error_swallowed(p, at) ==
    /\ pc[p] = at
    /\ \/ /\ reports' = save(reports, loc[p].report)
          /\ Logged(p, <<"save_report">>)
          /\ Goto(p, "x_org")
       \/ /\ Goto(p, "x_org")
          /\ UNCHANGED <<reports, log>>
    /\ UNCHANGED <<users, memberships, invitations, mails, config, clock,
                   nextUuid, started, req, loc>>

\* report.save(&mut conn).await? : the row is written, or the error returned.
ExposedSave(p, at) ==
    /\ pc[p] = at
    /\ \/ /\ reports' = save(reports, loc[p].report)
          /\ Logged(p, <<"save_report">>)
          /\ Goto(p, "x_org")
       \/ /\ Return(p, Err(500, "Error saving report"))
          /\ UNCHANGED <<reports, log>>
    /\ UNCHANGED <<users, memberships, invitations, mails, config, clock,
                   nextUuid, started, req, loc>>

ExposedSavePersonal(p) == ExposedSave(p, "x_save_personal")

\* One turn of `for (org_id_str, exposed_count) in data.org`: the HashMap
\* yields its entries in any order; the turn runs to `continue`, or to the
\* built report of a member's organization. The loop over, Ok(()) is returned.
ExposedOrgNext(p) ==
    /\ pc[p] = "x_org"
    /\ IF loc[p].todo = {}
       THEN /\ Return(p, Ok)
            /\ UNCHANGED <<loc, log, nextUuid>>
       ELSE \E org_uuid \in loc[p].todo :
              IF ~is_member(loc[p].user_memberships, org_uuid)
              THEN /\ loc' = [loc EXCEPT ![p].todo = @ \ {org_uuid}]
                   /\ Goto(p, "x_org")
                   /\ UNCHANGED <<log, nextUuid>>
              ELSE \E found \in first(find_by_org(org_uuid)) :
                   /\ loc' = [loc EXCEPT ![p].todo = @ \ {org_uuid},
                                         ![p].org_uuid = org_uuid,
                                         ![p].found = found,
                                         ![p].report =
                                 upsert_org(found, nextUuid.report, org_uuid,
                                            req[p].org[org_uuid], clock)]
                   /\ nextUuid' = uuid_taken(found)
                   /\ Goto(p, "x_save_org")
                   /\ Logged(p, <<"find_report">>)
    /\ UNCHANGED <<store, config, clock, started, req>>

ExposedSaveOrg(p) == ExposedSave(p, "x_save_org")

\* ------------------------------------------------------------ environment
\* The wall clock advances; two readings with no advance between are equal.
Tick ==
    /\ clock < MaxTime
    /\ clock' = clock + 1
    /\ UNCHANGED <<store, config, nextUuid, started, pc, req, loc, res, log>>

Next ==
    \/ \E p \in Procs : InviteRequest(p)
    \/ \E p \in Procs : InviteGenerate(p)
    \/ \E p \in Procs : InviteSave(p)
    \/ \E p \in Procs : DetailsRequest(p)
    \/ \E p \in Procs : DetailsReport(p)
    \/ \E p \in Procs : ExposedRequest(p)
    \/ \E p \in Procs : ExposedSavePersonal(p)
    \/ \E p \in Procs : ExposedOrgNext(p)
    \/ \E p \in Procs : ExposedSaveOrg(p)
    \/ Tick

Spec == Init /\ [][Next]_vars

\* The guard on every header value and every configured key: the guarded
\* handlers alone.
InitGuard == InitWith(ApiKeys)

InviteAnyHeader(p) == InviteArrives(p, Headers)

DetailsAnyHeader(p) == DetailsArrives(p, Headers)

NextGuard ==
    \/ \E p \in Procs : InviteAnyHeader(p)
    \/ \E p \in Procs : InviteGenerate(p)
    \/ \E p \in Procs : InviteSave(p)
    \/ \E p \in Procs : DetailsAnyHeader(p)
    \/ \E p \in Procs : DetailsReport(p)

SpecGuard == InitGuard /\ [][NextGuard]_vars

\* One call of exposed run from its first line to its return with no other
\* request between, for each order in which the HashMap may yield the entries
\* of data.org and each set of entries whose report.save returns Err.

\* The orders of iteration of a map with the keys in keys.
Orders(keys) ==
    {order \in [1..Cardinality(keys) -> keys] :
        \A i, j \in DOMAIN order : i # j => order[i] # order[j]}

\* Report::find_by_org on the table as the loop has left it so far.
find_by_org_in(table, org_uuid) ==
    {r \in table : r.user_uuid = None /\ r.org_uuid = org_uuid}

\* `for (org_id_str, exposed_count) in data.org { .. }` and the Ok(()) after
\* it, the entries taken in the given order: a non-member's entry is skipped
\* (continue), a member's report is found or built and saved, and the first
\* save that fails returns its error out of the handler (`?`). Run alone
\* from a store with no two reports of one organization, the lookup selects
\* at most one row.
RECURSIVE exposed_orgs(_, _, _, _, _, _, _)
exposed_orgs(table, uuid, user_memberships, org, order, failing, now) ==
    IF order = <<>>
    THEN [reports |-> table, uuid |-> uuid, result |-> Ok]
    ELSE LET org_uuid == Head(order) IN
         IF ~is_member(user_memberships, org_uuid)
         THEN exposed_orgs(table, uuid, user_memberships, org, Tail(order),
                           failing, now)
         ELSE LET rows == find_by_org_in(table, org_uuid)
                  found == IF rows = {} THEN NoReport
                           ELSE CHOOSE r \in rows : TRUE
                  report == upsert_org(found, uuid, org_uuid, org[org_uuid], now)
                  taken == IF found = NoReport THEN uuid + 1 ELSE uuid
              IN IF org_uuid \in failing
                 THEN [reports |-> table, uuid |-> taken,
                       result |-> Err(500, "Error saving report")]
                 ELSE exposed_orgs(save(table, report), taken, user_memberships,
                                   org, Tail(order), failing, now)

\* The whole handler in one step.
ExposedInOrder(p) ==
    /\ Accept(p)
    /\ \E user_id \in UserIds, me \in Counts, org \in OrgMaps :
       \E order \in Orders(DOMAIN org), failing \in SUBSET (DOMAIN org),
          personal_fails \in BOOLEAN :
          /\ req' = [req EXCEPT ![p] = [NoReq EXCEPT !.kind = "exposed",
                        !.user_id = user_id, !.me = me, !.org = org]]
          /\ IF User_find_by_uuid(user_id) = {}
             THEN /\ Return(p, Ok)
                  /\ Begun(p, NoLoc, <<"find_user">>)
                  /\ UNCHANGED <<reports, nextUuid>>
             ELSE \E found \in first(find_by_user_personal(user_id)) :
                  LET ms == Membership_find_by_user(user_id)
                      report == upsert_personal(found, nextUuid.report,
                                                user_id, me, clock)
                      run == exposed_orgs(save(reports, report),
                                          uuid_taken(found).report, ms, org,
                                          order, failing, clock)
                  IN /\ Begun(p, [NoLoc EXCEPT !.user_memberships = ms,
                                               !.found = found,
                                               !.report = report],
                              <<"find_user", "find_memberships", "find_report">>)
                     /\ IF personal_fails
                        THEN /\ Return(p, Err(500, "Error saving report"))
                             /\ nextUuid' = uuid_taken(found)
                             /\ UNCHANGED reports
                        ELSE /\ Return(p, run.result)
                             /\ nextUuid' = [nextUuid EXCEPT !.report = run.uuid]
                             /\ reports' = run.reports
    /\ UNCHANGED <<users, memberships, invitations, mails, config, clock>>

NextOrder ==
    \/ \E p \in Procs : ExposedInOrder(p)
    \/ Tick

SpecOrder == Init /\ [][NextOrder]_vars

\* The summarizer beside concurrent reports, from the store that an invite
\* of "c" (mail disabled) and reports at time 1 have left: user 3 has no
\* membership and a personal report; user 2 has, or has not, reported
\* {me: 2, org: {1: 2}} and then {me: -1, org: {}}.
SummaryReports ==
    { {new_personal(1, 3, 2, 1)},
      {new_personal(1, 3, 2, 1),
       update_exposed_count(new_personal(2, 2, 2, 1), -1, 1),
       new_org(3, 1, 2, 1)} }

InitSummary ==
    /\ users = {[uuid |-> i, email |-> Emails[i]] : i \in UserIds}
    /\ memberships = MembershipTable
    /\ reports \in SummaryReports
    /\ invitations = {"c"}
    /\ mails = {}
    /\ config \in [x_vaultwarden_api : RequestKeys, mail_enabled : {FALSE}]
    /\ clock = 1
    /\ nextUuid = [user |-> Cardinality(UserIds) + 1,
                   report |-> Cardinality(reports) + 1]
    /\ started = 0
    /\ pc = [p \in Procs |-> "idle"]
    /\ req = [p \in Procs |-> NoReq]
    /\ loc = [p \in Procs |-> NoLoc]
    /\ res = [p \in Procs |-> NoRes]
    /\ log = [p \in Procs |-> <<>>]

NextSummary ==
    \/ \E p \in Procs : DetailsRequest(p)
    \/ \E p \in Procs : DetailsReport(p)
    \/ \E p \in Procs : ExposedRequest(p)
    \/ \E p \in Procs : ExposedSavePersonal(p)
    \/ \E p \in Procs : ExposedOrgNext(p)
    \/ \E p \in Procs : ExposedSaveOrg(p)
    \/ Tick

SpecSummary == InitSummary /\ [][NextSummary]_vars

\* ------------------------------------------------------------ properties
\* What the claims speak of, read off the tables and the tasks.

\* Task p accepts a request in this step.
Accepted(p) == Accept(p) /\ started' = started + 1

\* Task p takes this step.
Moved(p) == <<pc[p], req[p], loc[p], res[p], log[p]>>'
                # <<pc[p], req[p], loc[p], res[p], log[p]>>

\* Task p's save of a report succeeds in this step.
Saved(p) == pc[p] \in {"x_save_personal", "x_save_org"} /\ pc'[p] = "x_org"

\* The count task p submitted for the report it is saving.
Submitted(p) ==
    IF pc[p] = "x_save_personal" THEN req[p].me ELSE req[p].org[loc[p].org_uuid]

\* User user_uuid holds a membership in organization org_uuid.
HoldsMembership(user_uuid, org_uuid) ==
    \E i \in DOMAIN memberships :
        memberships[i] = [user_uuid |-> user_uuid, org_uuid |-> org_uuid]

Max0(c) == IF c > 0 THEN c ELSE 0

\* The responses that are a guard's error.
GuardErrors ==
    {Err(401, "Missing x-vaultwarden-api header"),
     Err(401, "Invalid x-vaultwarden-api"),
     Err(500, "x-vaultwarden-api not configured")}

\* C1: every stored report, personal or organizational, has
\* exposed_count >= 0, whatever counts were submitted.
C1_CountNeverNegative == \A r \in reports : r.exposed_count >= 0

\* C2: an invite of an email that a user already has (an earlier invite of
\* it was saved) creates no user and no new row for that email, and responds
\* with the uuid of a user that had the email before the call: of the user
\* the first invite created, when that is the only one.
C2_InviteTwice ==
    [][\A p \in Procs :
         LET email == req'[p].email
             before == User_find_by_mail(email) IN
         (/\ Accepted(p)
          /\ req'[p].kind = "invite"
          /\ from_request(req'[p].header, config.x_vaultwarden_api) = Success
          /\ before # {})
         => /\ users' = users
            /\ pc'[p] = "done"
            /\ res'[p].code = 200
            /\ \E u \in before : res'[p].user_id = u.uuid]_vars

\* C2 witness: the second invite of an email has responded with the uuid of
\* the one user of that email, a user an invite created.
C2_Witness ==
    \E p \in Procs :
        /\ req[p].kind = "invite" /\ pc[p] = "done" /\ res[p].code = 200
        /\ log[p] = <<"find_user">>
        /\ res[p].user_id \notin InitUsers
        /\ User_find_by_mail(req[p].email)
              = {[uuid |-> res[p].user_id, email |-> req[p].email]}

\* C3: no step of a reportExposure call changes the organizational report of
\* an organization that is in the submitted map and in which the calling user
\* holds no membership: absent it stays absent, stored it keeps its row.
C3_NonMemberOrgUntouched ==
    [][\A p \in Procs : \A o \in Orgs :
         (/\ Moved(p)
          /\ req'[p].kind = "exposed"
          /\ o \in DOMAIN req'[p].org
          /\ ~HoldsMembership(req'[p].user_id, o))
         => find_by_org(o)' = find_by_org(o)]_vars

\* C3 witness: a call by a user outside organization o, with o in its map,
\* has saved its other reports and returned, and o has a stored report.
C3_Witness ==
    \E p \in Procs : \E o \in DOMAIN req[p].org :
        /\ req[p].kind = "exposed" /\ pc[p] = "done" /\ res[p].code = 200
        /\ User_find_by_uuid(req[p].user_id) # {}
        /\ ~HoldsMembership(req[p].user_id, o)
        /\ find_by_org(o) # {}
        /\ Len(log[p]) > 4

\* C4: the save that updates an existing report, personal or organizational,
\* leaves its row with exposed_count = max(c, 0) for the submitted count c,
\* whatever the count p it had.
C4_UpdateOverwrites ==
    [][\A p \in Procs :
         (Saved(p) /\ loc[p].found # NoReport)
         => \E r \in reports' :
               /\ r.uuid = loc[p].found.uuid
               /\ r.user_uuid = loc[p].found.user_uuid
               /\ r.org_uuid = loc[p].found.org_uuid
               /\ r.exposed_count = Max0(Submitted(p))]_vars

\* C4 witness: a task has just saved an update of a report that held a
\* positive count, and the row holds the submitted count, not the sum.
C4_Witness ==
    \E p \in Procs :
        /\ pc[p] = "x_org" /\ loc[p].found # NoReport
        /\ loc[p].found.exposed_count > 0
        /\ loc[p].report \in reports
        /\ loc[p].report.exposed_count = loc[p].found.exposed_count

\* C5: the save that updates an existing report leaves its row with a
\* last_updated_at strictly greater than the row had before the save.
C5_TimestampAdvances ==
    [][\A p \in Procs :
         (Saved(p) /\ loc[p].found # NoReport)
         => \A r \in reports : \A r2 \in reports' :
               r.uuid = loc[p].found.uuid /\ r2.uuid = r.uuid
               => r2.last_updated_at > r.last_updated_at]_vars

\* The same with "not lower" for "strictly greater": two calls that both read
\* the row before either saves write their timestamps in either order.
C5_TimestampNotLower ==
    [][\A p \in Procs :
         (Saved(p) /\ loc[p].found # NoReport)
         => \A r \in reports : \A r2 \in reports' :
               r.uuid = loc[p].found.uuid /\ r2.uuid = r.uuid
               => r2.last_updated_at >= r.last_updated_at]_vars

\* C6: the store holds at most one personal report per user and at most one
\* organizational report per organization.
C6_OneReportPerKey ==
    /\ \A u \in UserIds : Cardinality(find_by_user_personal(u)) <= 1
    /\ \A o \in Orgs : Cardinality(find_by_org(o)) <= 1

\* C7: every stored report has exactly one of user_uuid and org_uuid set; the
\* report a task built for a user's personal count names that user and no
\* organization, the report it built for an organization names that
\* organization and no user, whether the report is new or an updated row.
C7_OneOwner ==
    /\ \A r \in reports : (r.user_uuid = None) # (r.org_uuid = None)
    /\ \A p \in Procs :
          /\ pc[p] = "x_save_personal" =>
                /\ loc[p].report.user_uuid = req[p].user_id
                /\ loc[p].report.org_uuid = None
          /\ pc[p] = "x_save_org" =>
                /\ loc[p].report.user_uuid = None
                /\ loc[p].report.org_uuid = loc[p].org_uuid

\* C7 witness: a personal and an organizational report that requests created
\* are stored, one of them updated later than it was created.
C7_Witness ==
    LET created == reports \ UNION InitReports IN
    /\ \E r \in created : r.user_uuid # None /\ r.created_at > 1
    /\ \E r \in created : r.org_uuid # None /\ r.created_at > 1
    /\ \E r \in created : r.last_updated_at > r.created_at
\* C8: a reportExposure call whose userId matches no stored user responds
\* with success at once and changes nothing in the store, whatever count and
\* map it submits.
C8_UnknownUserNoOp ==
    [][\A p \in Procs :
         (/\ Accepted(p)
          /\ req'[p].kind = "exposed"
          /\ \A u \in users : u.uuid # req'[p].user_id)
         => /\ pc'[p] = "done"
            /\ res'[p] = Ok
            /\ store' = store]_vars

\* C8 witness: a call for an unknown user, with a negative personal count and
\* a map with entries, has returned success while reports are stored.
C8_Witness ==
    \E p \in Procs :
        /\ req[p].kind = "exposed" /\ pc[p] = "done" /\ res[p] = Ok
        /\ \A u \in users : u.uuid # req[p].user_id
        /\ req[p].me < 0 /\ DOMAIN req[p].org # {}
        /\ reports \notin InitReports

\* C9: the guard's outcome is decided by the header and the configured key:
\* header absent or empty: 401 missing, a key configured or not; else no key
\* configured: 500 not configured; else header different from the key: 401
\* invalid; header equal to the key: the handler runs.
C9_GuardOutcome ==
    \A p \in Procs :
        req[p].kind \in {"invite", "details"} =>
            LET header == req[p].header
                key == config.x_vaultwarden_api IN
            IF header \in {<<>>, <<"">>}
            THEN res[p] = Err(401, "Missing x-vaultwarden-api header")
            ELSE IF key = <<>>
            THEN res[p] = Err(500, "x-vaultwarden-api not configured")
            ELSE IF header # key
            THEN res[p] = Err(401, "Invalid x-vaultwarden-api")
            ELSE res[p] \notin GuardErrors

\* C9 witness: with one key configured, a header that differs from it in case
\* only was rejected as invalid and a header equal to it was let through.
C9_Witness ==
    \E p, q \in Procs :
        /\ config.x_vaultwarden_api = <<"k">>
        /\ req[p].kind = "invite" /\ req[p].header = <<"K">>
        /\ res[p] = Err(401, "Invalid x-vaultwarden-api")
        /\ req[q].kind = "details" /\ req[q].header = <<"k">>
        /\ res[q].code = 200

\* C10: a request to invite or to user details that the guard rejects does
\* nothing else: no lookup, no mail, no write; the store is as it was and the
\* guard's error is the response.
C10_RejectedDoesNothing ==
    [][\A p \in Procs :
         (/\ Accepted(p)
          /\ req'[p].kind \in {"invite", "details"}
          /\ from_request(req'[p].header, config.x_vaultwarden_api) # Success)
         => /\ store' = store
            /\ nextUuid' = nextUuid
            /\ log'[p] = <<>>
            /\ pc'[p] = "done"
            /\ res'[p] \in GuardErrors]_vars

\* C10 witness: an invite of a new email was rejected by the guard, and no
\* user, mail or invitation of that email exists.
C10_Witness ==
    \E p \in Procs :
        /\ req[p].kind = "invite" /\ pc[p] = "done"
        /\ res[p] \in GuardErrors /\ log[p] = <<>>
        /\ User_find_by_mail(req[p].email) = {}
        /\ req[p].email \notin invitations
        /\ \A m \in mails : m.email # req[p].email

\* ------------------------------------------------------ properties: invite
\* The operation of a notification: the mail sent or the local record saved.
Notifications == {"send_admin_invite", "save_invitation"}

\* Task p runs, or has run, an invite that found no user of its email.
InvitesNew(p) == req[p].kind = "invite" /\ loc[p].user # NoUser

\* The notification of task p's invite is in the store.
Notified(p) ==
    IF config.mail_enabled
    THEN [email |-> loc[p].user.email, user_uuid |-> loc[p].user.uuid] \in mails
    ELSE loc[p].user.email \in invitations

\* C11: an invite of an email with no user responds with success only when
\* the notification step and the user save both succeeded: then the user row
\* and the notification are in the store; when either step failed the
\* response is a 500 without a user id.
C11_SuccessNeedsBothSteps ==
    \A p \in Procs :
        (InvitesNew(p) /\ pc[p] = "done") =>
            IF res[p].code = 200
            THEN /\ res[p] = OkUserId(loc[p].user.uuid)
                 /\ loc[p].user \in users
                 /\ Notified(p)
                 /\ Len(log[p]) = 3 /\ log[p][2] \in Notifications
                 /\ log[p][3] = "save_user"
            ELSE /\ res[p].code = 500 /\ res[p].user_id = None
                 /\ Len(log[p]) < 3

\* C11 witness: one invite of a new email failed at the user save, after its
\* notification, with a 500; another succeeded with the new user's id.
C11_Witness ==
    \E p, q \in Procs :
        /\ InvitesNew(p) /\ pc[p] = "done" /\ res[p].code = 500
        /\ Len(log[p]) = 2
        /\ InvitesNew(q) /\ pc[q] = "done" /\ res[q].code = 200

\* C12: after an invite that failed at either step, with no other invite of
\* the same email about, the store holds no user row and no pending-invitation
\* record of that email.
C12_NoPartialState ==
    \A p \in Procs :
        (/\ InvitesNew(p) /\ pc[p] = "done" /\ res[p].code = 500
         /\ \A q \in Procs \ {p} : req[q].email # req[p].email)
        => /\ User_find_by_mail(req[p].email) = {}
           /\ req[p].email \notin invitations

\* C13: an invite that finds a user of the email dispatches nothing and
\* leaves the users as they are; an invite that creates a user dispatches
\* once, in its notification step only: the mail when mail is enabled, else
\* the pending-invitation record, never both, and it has dispatched exactly
\* once when it saves the user.
C13_OneNotification ==
    [][\A p \in Procs :
         /\ (/\ Accepted(p)
             /\ req'[p].kind = "invite"
             /\ User_find_by_mail(req'[p].email) # {})
            => /\ mails' = mails /\ invitations' = invitations
               /\ users' = users
         /\ (pc[p] = "i_generate_invite" /\ pc'[p] = "i_save")
            => LET mail == [email |-> loc[p].user.email,
                            user_uuid |-> loc[p].user.uuid] IN
               IF config.mail_enabled
               THEN /\ mail \notin mails /\ mails' = mails \cup {mail}
                    /\ invitations' = invitations
               ELSE /\ invitations' = invitations \cup {loc[p].user.email}
                    /\ mails' = mails
         /\ (/\ Moved(p) /\ req'[p].kind = "invite"
             /\ ~(pc[p] = "i_generate_invite" /\ pc'[p] = "i_save"))
            => mails' = mails /\ invitations' = invitations
         /\ (pc[p] = "i_save" /\ users' # users)
            => /\ Len(log[p]) = 2
               /\ log[p][2] = IF config.mail_enabled THEN "send_admin_invite"
                              ELSE "save_invitation"]_vars

\* C13 witness: the user of a new email was created with one notification,
\* and a later invite of that email has returned that user with none.
C13_Witness ==
    \E p \in Procs : \E u \in users :
        /\ u.uuid \notin InitUsers
        /\ req[p].kind = "invite" /\ req[p].email = u.email
        /\ pc[p] = "done" /\ res[p] = OkUserId(u.uuid)
        /\ log[p] = <<"find_user">>
        /\ Cardinality(mails) + Cardinality(invitations) = 1

C19_NotifyBeforeSave ==
    /\ \A u \in users :
          u.uuid \notin InitUsers =>
             IF config.mail_enabled
             THEN [email |-> u.email, user_uuid |-> u.uuid] \in mails
             ELSE u.email \in invitations
    /\ \A p \in Procs :
          InvitesNew(p) =>
             /\ (pc[p] = "i_save" \/ loc[p].user \in users)
                => /\ Len(log[p]) >= 2 /\ log[p][2] \in Notifications
                   /\ Notified(p)
             /\ \A i \in DOMAIN log[p] : log[p][i] = "save_user" => i = 3
             /\ (pc[p] = "done" /\ Len(log[p]) = 1) => loc[p].user \notin users

\* C19 witness: one invite has saved its new user after its notification,
\* and the other's notification failed and no user of its was saved.
C19_Witness ==
    \E p, q \in Procs :
        /\ InvitesNew(p) /\ loc[p].user \in users
        /\ log[p] = <<"find_user", "save_invitation", "save_user">>
        /\ InvitesNew(q) /\ pc[q] = "done" /\ res[q].code = 500
        /\ log[q] = <<"find_user">> /\ loc[q].user \notin users

\* ----------------------------------------------------- properties: details
\* Task p's details request gets its response from the handler in this step.
Summarized(p) ==
    /\ req'[p].kind = "details" /\ pc'[p] = "done"
    /\ Accepted(p) \/ pc[p] = "d_report"
    /\ res'[p] \notin GuardErrors

\* The users_organizations rows of organization org_uuid.
MembersOf(org_uuid) ==
    {i \in DOMAIN memberships : memberships[i].org_uuid = org_uuid}

\* C15: summarize responds NotFound (404) when no user has the id; for a
\* stored user it responds with status "Pending" if and only if the user has
\* no membership and "Active" otherwise, and orgId is null exactly when the
\* status is "Pending".
C15_Status ==
    [][\A p \in Procs :
         Summarized(p) =>
            LET user_id == req'[p].user_id
                d == res'[p].details IN
            IF \A u \in users : u.uuid # user_id
            THEN res'[p] = Err(404, "User not found")
            ELSE /\ res'[p].code = 200
                 /\ d.status \in {"Pending", "Active"}
                 /\ d.status = "Pending" <=>
                       (\A i \in DOMAIN memberships :
                            memberships[i].user_uuid # user_id)
                 /\ d.org_id = None <=> d.status = "Pending"]_vars

\* C15 witness: the summary of a stored user with no membership (a user an
\* invite created) is "Pending" with a null orgId.
C15_Witness ==
    \E p \in Procs :
        /\ req[p].kind = "details" /\ pc[p] = "done" /\ res[p].code = 200
        /\ User_find_by_uuid(req[p].user_id) # {}
        /\ req[p].user_id \notin InitUsers
        /\ res[p].details.status = "Pending"
        /\ res[p].details.org_id = None

\* C16: for a user with a membership, summarize responds with membersCount =
\* the number of memberships of the organization of the user's first
\* membership, and with the exposedCount and lastUpdatedAt of an
\* organizational report of that organization (0 and null when it has none);
\* for a user with no membership it responds 0, 0 and null.
C16_Counts ==
    [][\A p \in Procs :
         (Summarized(p) /\ res'[p].code = 200) =>
            LET ms == Membership_find_by_user(req'[p].user_id)
                d == res'[p].details IN
            IF ms = <<>>
            THEN /\ d.members_count = 0 /\ d.exposed_count = 0
                 /\ d.last_updated_at = <<>>
            ELSE LET o == ms[1].org_uuid IN
                 /\ d.org_id = o
                 /\ d.members_count = Cardinality(MembersOf(o))
                 /\ IF find_by_org(o) = {}
                    THEN d.exposed_count = 0 /\ d.last_updated_at = <<>>
                    ELSE \E r \in find_by_org(o) :
                           /\ d.exposed_count = r.exposed_count
                           /\ d.last_updated_at
                                 = <<to_rfc3339(r.last_updated_at)>>]_vars

\* C16 witness: a member's summary carries the count and the time of its
\* organization's report where its own personal report has another count;
\* the summary of a user with no membership and a personal
\* report with a positive count carries 0 and null.
C16_Witness ==
    \E p, q \in Procs :
        /\ req[p].kind = "details" /\ pc[p] = "done" /\ res[p].code = 200
        /\ res[p].details.status = "Active"
        /\ \E r \in find_by_user_personal(req[p].user_id) :
              r.exposed_count # res[p].details.exposed_count
        /\ res[p].details.exposed_count > 0
        /\ res[p].details.last_updated_at # <<>>
        /\ req[q].kind = "details" /\ pc[q] = "done" /\ res[q].code = 200
        /\ res[q].details.status = "Pending"
        /\ \E r \in find_by_user_personal(req[q].user_id) : r.exposed_count > 0
        /\ res[q].details.exposed_count = 0
        /\ res[q].details.last_updated_at = <<>>

\* ----------------------------------------------------- properties: exposed
\* Which organizations have a report in the table, and with which count.
OrgCounts(table) ==
    {<<r.org_uuid, r.exposed_count>> : r \in {x \in table : x.org_uuid # None}}

\* C17: from any store, for any user, map and set of entries whose save
\* fails, every two orders of processing the map's entries leave the same
\* organizational reports (organizations and counts) and give the same result.
C17_OrderIrrelevant ==
    \A user_id \in InitUsers, org \in OrgMaps :
    \A failing \in SUBSET (DOMAIN org) :
    \A order1, order2 \in Orders(DOMAIN org) :
        LET ms == Membership_find_by_user(user_id)
            run1 == exposed_orgs(reports, nextUuid.report, ms, org, order1,
                                 failing, clock)
            run2 == exposed_orgs(reports, nextUuid.report, ms, org, order2,
                                 failing, clock)
        IN /\ OrgCounts(run1.reports) = OrgCounts(run2.reports)
           /\ run1.result = run2.result

\* The same with every save succeeding: the order alone changes neither the
\* organizational reports nor the result.
OrderIrrelevantWithoutFailure ==
    \A user_id \in InitUsers, org \in OrgMaps :
    \A order1, order2 \in Orders(DOMAIN org) :
        LET ms == Membership_find_by_user(user_id)
            run1 == exposed_orgs(reports, nextUuid.report, ms, org, order1,
                                 {}, clock)
            run2 == exposed_orgs(reports, nextUuid.report, ms, org, order2,
                                 {}, clock)
        IN /\ OrgCounts(run1.reports) = OrgCounts(run2.reports)
           /\ run1.result = run2.result

\* The saves of a report that task p has logged.
SavesLogged(l) == Cardinality({i \in DOMAIN l : l[i] = "save_report"})

\* The entries of task p's map that the calling user is authorized for.
Authorized(r) == {o \in DOMAIN r.org : HoldsMembership(r.user_id, o)}

\* C18: a reportExposure call for a stored user whose save of the personal
\* report or of an authorized organizational report fails ends at that save
\* with an error; it responds with success only when it has saved the
\* personal report and the report of every authorized entry of its map, and
\* these reports are in the store.
C18_NoPartialSuccess ==
    [][\A p \in Procs :
         /\ (/\ pc[p] \in {"x_save_personal", "x_save_org"}
             /\ Moved(p) /\ ~Saved(p))
            => /\ pc'[p] = "done" /\ res'[p].code = 500
               /\ reports' = reports
         /\ (pc[p] = "x_org" /\ pc'[p] = "done")
            => /\ res'[p] = Ok
               /\ SavesLogged(log'[p]) = 1 + Cardinality(Authorized(req[p]))
               /\ find_by_user_personal(req[p].user_id) # {}
               /\ \A o \in Authorized(req[p]) : find_by_org(o) # {}
         /\ (/\ req'[p].kind = "exposed" /\ pc'[p] = "done" /\ Moved(p)
             /\ res'[p].code = 200
             /\ User_find_by_uuid(req'[p].user_id) # {})
            => pc[p] = "x_org"]_vars

\* C18 witness: one call has failed with a 500 at the save of an
\* organizational report, its personal report saved; another has returned
\* success with its personal report and both its authorized entries saved.
C18_Witness ==
    \E p, q \in Procs :
        /\ req[p].kind = "exposed" /\ pc[p] = "done" /\ res[p].code = 500
        /\ SavesLogged(log[p]) >= 1 /\ loc[p].org_uuid # None
        /\ req[q].kind = "exposed" /\ pc[q] = "done" /\ res[q] = Ok
        /\ SavesLogged(log[q]) = 3

\* C20: the save that updates an existing report replaces that one row in
\* place: the number of rows is unchanged, every other row is as it was, and
\* the row keeps its uuid, created_at, user_uuid and org_uuid; and no step of
\* a call by user U changes the personal report of another user.
C20_UpdateFrame ==
    [][\A p \in Procs :
         /\ (Saved(p) /\ loc[p].found # NoReport)
            => /\ Cardinality(reports') = Cardinality(reports)
               /\ \E r \in reports : \E r2 \in reports' :
                     /\ r.uuid = loc[p].found.uuid /\ r2.uuid = r.uuid
                     /\ r2.created_at = r.created_at
                     /\ r2.user_uuid = r.user_uuid
                     /\ r2.org_uuid = r.org_uuid
                     /\ reports' \ {r2} = reports \ {r}
         /\ (Moved(p) /\ req'[p].kind = "exposed")
            => \A u \in UserIds \ {req'[p].user_id} :
                  find_by_user_personal(u)' = find_by_user_personal(u)]_vars

\* C20 witness: a call has just saved an update that changed the count and
\* the time of a report, the row keeps its created_at, and the personal
\* report of another user is stored.
C20_Witness ==
    \E p \in Procs :
        /\ pc[p] = "x_org" /\ loc[p].found # NoReport
        /\ loc[p].report \in reports
        /\ loc[p].report.exposed_count # loc[p].found.exposed_count
        /\ loc[p].report.last_updated_at > loc[p].found.last_updated_at
        /\ loc[p].report.created_at = loc[p].found.created_at
        /\ \E r \in reports :
              r.user_uuid \notin {None, req[p].user_id}
====
